---- MODULE Spec2Model ----
(***************************************************************************)
(* WaterRower workout recorder: the protocol session of src/main.rs and    *)
(* src/wr_utils.rs.  Text is modelled as sequences of one-character        *)
(* strings, so that slicing, prefix matching, line splitting and number    *)
(* parsing are computed as the code computes them.                         *)
(***************************************************************************)
EXTENDS Integers, Sequences, FiniteSets, TLC

VARIABLES
    pc,          \* position of main(): which call comes next
    state,       \* WorkoutContext.state
    wire,        \* bytes the device has written that port.read has not yet returned
    sent,        \* commands written to the port, in order
    serial_response, \* the String the latest serial_receive_response returned
    raw_values,  \* workout_values_update's HashMap of this cycle
    nrecv,       \* receive calls made so far in this cycle's collection window
    iwv,         \* main's instant_workout_values of the current cycle
    datapoints,  \* main's Vec<InstantWorkoutValues>
    gwv,         \* main's global_workout_values
    device       \* a record of what the device has reported, kept where the
                 \* cycle is followed from the device's side (WindowReceive):
                 \* the elapsed time of the previous cycle, and the time
                 \* registers written in this one

vars ==
    <<pc, state, wire, sent, serial_response, raw_values, nrecv, iwv, datapoints,
      gwv, device>>

----------------------------------------------------------------------------
(* Bounds of the model *)

\* polling cycles of one session
MaxCycles == 2
\* receive calls in one collection window
MaxRecv == 2
\* trailing bytes of the device's output that one read may leave for the next
MaxHeld == 2
\* samples in a sequence handed directly to global_workout_values_finalize
MaxSamples == 4

----------------------------------------------------------------------------
(* Protocol constants *)

NL == "\n"
CR == "\r"

CMD_START == "USB"
CMD_STOP == "EXIT"
CMD_MODEL_INFO == "IV?"

RET_OK == <<"O", "K">>
RET_ERROR == <<"E", "R", "R", "O", "R">>
RET_HW_TYPE == <<"_", "W", "R", "_">>
RET_MODEL_INFO == <<"I", "V">>
RET_DATA_1_BYTE == <<"I", "D", "S">>
RET_DATA_2_BYTES == <<"I", "D", "D">>
RET_DATA_3_BYTES == <<"I", "D", "T">>
WR_STROKE_START == <<"S", "S">>

DISTANCE ==
    [name |-> "Distance", command |-> "IRD055",
     response |-> <<"I", "D", "D", "0", "5", "5">>]
STROKE_COUNT ==
    [name |-> "Stroke Count", command |-> "IRD140",
     response |-> <<"I", "D", "D", "1", "4", "0">>]
STROKE_TIME_AVG ==
    [name |-> "Stroke Time Average", command |-> "IRS142",
     response |-> <<"I", "D", "S", "1", "4", "2">>]
STROKE_PULL_TIME_AVG ==
    [name |-> "Stroke Pull Time Average", command |-> "IRS143",
     response |-> <<"I", "D", "S", "1", "4", "3">>]
ZONE_HEART_RATE ==
    [name |-> "Heart Rate (Zone)", command |-> "IRS1A0",
     response |-> <<"I", "D", "S", "1", "A", "0">>]
ZONE_SECONDS_PER_500M ==
    [name |-> "Seconds per 500 Meters (Zone)", command |-> "IRD1A5",
     response |-> <<"I", "D", "D", "1", "A", "5">>]
ZONE_STROKE_RATE ==
    [name |-> "Stroke Rate (Zone)", command |-> "IRS1A9",
     response |-> <<"I", "D", "S", "1", "A", "9">>]
DISPLAY_SECONDS ==
    [name |-> "Seconds (Display)", command |-> "IRS1E1",
     response |-> <<"I", "D", "S", "1", "E", "1">>]
DISPLAY_MINUTES ==
    [name |-> "Minutes (Display)", command |-> "IRS1E2",
     response |-> <<"I", "D", "S", "1", "E", "2">>]
DISPLAY_HOURS ==
    [name |-> "Hours (Display)", command |-> "IRS1E3",
     response |-> <<"I", "D", "S", "1", "E", "3">>]
WATER_ROWER_VALUES ==
    << DISPLAY_SECONDS, DISPLAY_MINUTES, DISPLAY_HOURS, DISTANCE, STROKE_COUNT,
       STROKE_TIME_AVG, STROKE_PULL_TIME_AVG, ZONE_HEART_RATE,
       ZONE_SECONDS_PER_500M, ZONE_STROKE_RATE >>

----------------------------------------------------------------------------
(* Text helpers: str slicing, str::lines, u32::from_str_radix *)

Min2(a, b) == IF a <= b THEN a ELSE b

\* &s[from..to] (0-based, end exclusive); the caller checks the range as Rust does
Slice(s, from, to) == SubSeq(s, from + 1, to)

\* whether &s[from..to] is in range (out of range panics)
SliceOk(s, from, to) == from <= to /\ to <= Len(s)

StripCR(l) ==
    IF Len(l) > 0 /\ l[Len(l)] = CR THEN SubSeq(l, 1, Len(l) - 1) ELSE l

\* str::lines(): split at "\n" or "\r\n"; a last line without terminator is still
\* yielded (a bare trailing "\r" stays part of it), an empty remainder is not
Lines(s) ==
    LET P == { i \in 1..Len(s) : s[i] = NL }
        n == Cardinality(P)
        pos(k) == CHOOSE q \in P : Cardinality({ t \in P : t < q }) = k - 1
        first(k) == IF k = 1 THEN 1 ELSE pos(k - 1) + 1
        whole == [k \in 1..n |-> StripCR(SubSeq(s, first(k), pos(k) - 1))]
    IN IF first(n + 1) <= Len(s)
       THEN Append(whole, SubSeq(s, first(n + 1), Len(s)))
       ELSE whole

DigitChars ==
    << "0", "1", "2", "3", "4", "5", "6", "7", "8", "9",
       "A", "B", "C", "D", "E", "F" >>
LowerDigitChars ==
    << "0", "1", "2", "3", "4", "5", "6", "7", "8", "9",
       "a", "b", "c", "d", "e", "f" >>

\* char::to_digit(radix): the digit's value, or -1 when c is no digit of the radix
ToDigit(c, radix) ==
    IF \E v \in 0..(radix - 1) : DigitChars[v + 1] = c \/ LowerDigitChars[v + 1] = c
    THEN CHOOSE v \in 0..(radix - 1) :
             DigitChars[v + 1] = c \/ LowerDigitChars[v + 1] = c
    ELSE -1

RECURSIVE ParseDigits(_, _, _, _)
ParseDigits(s, i, radix, acc) ==
    IF i > Len(s) THEN acc
    ELSE LET d == ToDigit(s[i], radix)
         IN IF d < 0
            THEN -1
            ELSE ParseDigits(s, i + 1, radix, acc * radix + d)

\* a parser that reads the least significant digit first
FromStrRadixReversed(s, radix) ==
    IF Len(s) = 0 THEN -1
    ELSE ParseDigits([i \in 1..Len(s) |-> s[Len(s) + 1 - i]], 1, radix, 0)

\* u32::from_str_radix(s, radix): the value, or -1 for Err (empty, a lone sign, a
\* character that is no digit); one leading "+" is accepted.  The payloads of the
\* model have at most four digits, so no value or sum comes near 2^32 and u32
\* arithmetic is exact.
FromStrRadix(s, radix) ==
    IF Len(s) = 0 THEN -1
    ELSE IF s[1] = "+"
         THEN IF Len(s) = 1 THEN -1 ELSE ParseDigits(s, 2, radix, 0)
         ELSE ParseDigits(s, 1, radix, 0)

----------------------------------------------------------------------------
(* Transport *)

\* serial_send_command: the command is written (with "\n") and the call returns
SerialSend(log, command) == Append(log, command)

\* serial_receive_response: one port.read.  The device has written msg after what
\* was still unread; the read returns a prefix of the pending bytes and may leave
\* up to MaxHeld trailing bytes (a partial line) for the next read.  A timeout or
\* an I/O error returns "".
SerialReceive(pending, msg) ==
    LET s == pending \o msg
    IN { [response |-> SubSeq(s, 1, k), rest |-> SubSeq(s, k + 1, Len(s))] :
            k \in { j \in 0..Len(s) : Len(s) - j <= MaxHeld } }

----------------------------------------------------------------------------
(* Values *)

\* f32 values are modelled by the exact rational they approximate
RECURSIVE GCD(_, _)
GCD(a, b) == IF b = 0 THEN a ELSE GCD(b, a % b)
Abs(a) == IF a < 0 THEN -a ELSE a
\* the rational n/d (d > 0) in lowest terms
Rat(n, d) ==
    IF n = 0 THEN [num |-> 0, den |-> 1]
    ELSE LET g == GCD(Abs(n), d) IN [num |-> n \div g, den |-> d \div g]
RatZero == [num |-> 0, den |-> 1]
RatLess(a, b) == a.num * b.den < b.num * a.den
RatAdd(a, b) == Rat(a.num * b.den + b.num * a.den, a.den * b.den)
RatMin(a, b) == IF RatLess(b, a) THEN b ELSE a
RatMax(a, b) == IF RatLess(a, b) THEN b ELSE a

instant_workout_values_init ==
    [time_in_seconds |-> 0, distance_in_meters |-> 0, seconds_per_500m |-> 0,
     stroke_count |-> 0, strokes_per_minute |-> 0, stroke_ratio |-> RatZero,
     heart_rate |-> 0]

\* the struct literal of global_workout_values_init
GlobalWorkoutValuesNew ==
    [date_time_start |-> "", date_time_end |-> "",
     model |-> <<>>, fw_version |-> <<>>,
     datapoints |-> 0, total_time_in_seconds |-> 0,
     total_distance_in_meters |-> 0, total_stroke_count |-> 0,
     seconds_per_500m_min |-> 0, seconds_per_500m_avg |-> RatZero,
     seconds_per_500m_max |-> 0,
     strokes_per_minute_min |-> 0, strokes_per_minute_avg |-> RatZero,
     strokes_per_minute_max |-> 0,
     stroke_ratio_min |-> RatZero, stroke_ratio_avg |-> RatZero,
     stroke_ratio_max |-> RatZero,
     heart_rate_min |-> 0, heart_rate_avg |-> RatZero, heart_rate_max |-> 0]

----------------------------------------------------------------------------
(* What the device writes.  Every message is a sequence of complete lines; the
   transport decides how the bytes are cut into reads. *)

Line(l) == l \o <<NL>>

StartMessages ==
    { <<>>,
      Line(RET_HW_TYPE),
      RET_HW_TYPE \o <<CR, NL>>,
      Line(RET_OK) \o Line(RET_HW_TYPE) \o Line(RET_OK),
      Line(RET_HW_TYPE) \o Line(RET_HW_TYPE),
      Line(WR_STROKE_START) }

ModelInfoMessages ==
    { <<>>,
      Line(<<"I", "V", "4", "1", "2", "1", "3">>),
      Line(RET_HW_TYPE),
      Line(RET_OK) \o Line(<<"I", "V", "5", "1", "0", "0", "0">>) }

WaitMessages ==
    { <<>>,
      Line(WR_STROKE_START),
      Line(RET_HW_TYPE),
      Line(RET_OK) \o Line(WR_STROKE_START) }

SecondsPayloads == { <<"0", "0">>, <<"0", "1">> }

\* the payloads of the nine other registers: rowing, and idle (no sensor data)
RestPayloads ==
    << [r \in {} |-> <<>>]
       @@ (DISPLAY_MINUTES.name :> <<"0", "0">>)
       @@ (DISTANCE.name :> <<"0", "1", "0", "0">>)
       @@ (STROKE_COUNT.name :> <<"0", "0", "0", "A">>)
       @@ (STROKE_TIME_AVG.name :> <<"6", "4">>)
       @@ (STROKE_PULL_TIME_AVG.name :> <<"3", "2">>)
       @@ (ZONE_HEART_RATE.name :> <<"8", "C">>)
       @@ (ZONE_SECONDS_PER_500M.name :> <<"0", "A", "0", "1">>)
       @@ (ZONE_STROKE_RATE.name :> <<"1", "8">>)
       @@ (DISPLAY_HOURS.name :> <<"0", "0">>),
       [r \in {} |-> <<>>]
       @@ (DISPLAY_MINUTES.name :> <<"0", "0">>)
       @@ (DISTANCE.name :> <<"0", "0", "0", "0">>)
       @@ (STROKE_COUNT.name :> <<"0", "0", "0", "0">>)
       @@ (STROKE_TIME_AVG.name :> <<"6", "4">>)
       @@ (STROKE_PULL_TIME_AVG.name :> <<"0", "0">>)
       @@ (ZONE_HEART_RATE.name :> <<"0", "0">>)
       @@ (ZONE_SECONDS_PER_500M.name :> <<"0", "0", "0", "0">>)
       @@ (ZONE_STROKE_RATE.name :> <<"0", "0">>)
       @@ (DISPLAY_HOURS.name :> <<"0", "0">>) >>

ValueLine(value, payload) == Line(value.response \o payload)

\* the answers to nine of the ten queries in one burst (hours answered last)
RestFrame(p) ==
    ValueLine(DISPLAY_MINUTES, p[DISPLAY_MINUTES.name])
    \o ValueLine(DISTANCE, p[DISTANCE.name])
    \o ValueLine(STROKE_COUNT, p[STROKE_COUNT.name])
    \o ValueLine(STROKE_TIME_AVG, p[STROKE_TIME_AVG.name])
    \o ValueLine(STROKE_PULL_TIME_AVG, p[STROKE_PULL_TIME_AVG.name])
    \o ValueLine(ZONE_HEART_RATE, p[ZONE_HEART_RATE.name])
    \o ValueLine(ZONE_SECONDS_PER_500M, p[ZONE_SECONDS_PER_500M.name])
    \o ValueLine(ZONE_STROKE_RATE, p[ZONE_STROKE_RATE.name])
    \o ValueLine(DISPLAY_HOURS, p[DISPLAY_HOURS.name])

PollMessages ==
    { <<>>, Line(RET_ERROR) }
    \cup { ValueLine(DISPLAY_SECONDS, s) : s \in SecondsPayloads }
    \cup { RestFrame(RestPayloads[v]) : v \in 1..Len(RestPayloads) }

\* every complete line the device writes while it is polled
DeviceLines ==
    UNION { { Lines(m)[i] : i \in 1..Len(Lines(m)) } : m \in PollMessages }

----------------------------------------------------------------------------
(* start, global_workout_values_init, wait_for_first_stroke *)

\* a start whose state follows the last line alone
StartLinesLastLine(st, lines) ==
    IF Len(lines) > 0 /\ lines[Len(lines)] = RET_HW_TYPE THEN "Connected" ELSE "Init"

\* the loop of start over the response's lines
StartLines(st, lines) ==
    IF \E i \in 1..Len(lines) : lines[i] = RET_HW_TYPE THEN "Connected" ELSE st

\* one line of the IV? response: [ok |-> FALSE] is the panic of a slice out of range
ModelInfoLine(g, line) ==
    IF ~SliceOk(line, 0, 2) THEN [ok |-> FALSE, gwv |-> g]
    ELSE IF Slice(line, 0, 2) # RET_MODEL_INFO THEN [ok |-> TRUE, gwv |-> g]
    ELSE IF ~(SliceOk(line, 2, 3) /\ SliceOk(line, 3, 5) /\ SliceOk(line, 5, 7))
         THEN [ok |-> FALSE, gwv |-> g]
         ELSE [ok |-> TRUE,
               gwv |-> [g EXCEPT !.model = Slice(line, 2, 3),
                                 !.fw_version = Slice(line, 3, 5) \o <<".">>
                                                \o Slice(line, 5, 7)]]

RECURSIVE ModelInfoLines(_, _, _)
ModelInfoLines(g, lines, i) ==
    IF i > Len(lines) THEN [ok |-> TRUE, gwv |-> g]
    ELSE LET r == ModelInfoLine(g, lines[i])
         IN IF r.ok THEN ModelInfoLines(r.gwv, lines, i + 1) ELSE r

\* a wait loop that takes any line at all for the first stroke
WaitLinesAnyLine(st, lines) == IF Len(lines) > 0 THEN "Running" ELSE st

\* the loop of wait_for_first_stroke over one response's lines
WaitLines(st, lines) ==
    IF \E i \in 1..Len(lines) : lines[i] = WR_STROKE_START THEN "Running" ELSE st

----------------------------------------------------------------------------
(* workout_values_update *)

EmptyMap == [n \in {} |-> <<>>]

\* a length test that lets a bare six-character prefix through (>= 6)
IsDataFrameAtLeast6(line) ==
    /\ Len(line) >= 6
    /\ \/ Slice(line, 0, 3) = RET_DATA_1_BYTE
       \/ Slice(line, 0, 3) = RET_DATA_2_BYTES
       \/ Slice(line, 0, 3) = RET_DATA_3_BYTES

IsDataFrame(line) ==
    /\ Len(line) > 6
    /\ \/ Slice(line, 0, 3) = RET_DATA_1_BYTE
       \/ Slice(line, 0, 3) = RET_DATA_2_BYTES
       \/ Slice(line, 0, 3) = RET_DATA_3_BYTES

\* the catalog entries whose response prefix the line starts with
Matches(line) ==
    { i \in 1..Len(WATER_ROWER_VALUES) :
        Slice(line, 0, Len(WATER_ROWER_VALUES[i].response))
            = WATER_ROWER_VALUES[i].response }

\* an insert that keeps the value a register already has (entry().or_insert())
InsertMatchesKeepFirst(raw, line) ==
    LET M == Matches(line)
        first(name) == CHOOSE i \in M : WATER_ROWER_VALUES[i].name = name
    IN [name \in DOMAIN raw \cup { WATER_ROWER_VALUES[i].name : i \in M } |->
           IF name \in DOMAIN raw THEN raw[name]
           ELSE Slice(line, Len(WATER_ROWER_VALUES[first(name)].response), Len(line))]

\* for value in WATER_ROWER_VALUES.iter() { if prefix matches { insert } }: every
\* matching entry inserts under its name, the last insert for a name stays
InsertMatches(raw, line) ==
    LET M == Matches(line)
        last(name) == CHOOSE i \in M :
                         /\ WATER_ROWER_VALUES[i].name = name
                         /\ \A j \in M : WATER_ROWER_VALUES[j].name = name => j <= i
    IN [name \in DOMAIN raw \cup { WATER_ROWER_VALUES[i].name : i \in M } |->
           IF \E i \in M : WATER_ROWER_VALUES[i].name = name
           THEN Slice(line, Len(WATER_ROWER_VALUES[last(name)].response), Len(line))
           ELSE raw[name]]

\* a match whose ERROR arm throws away what the cycle has recorded so far
ClassifyLineErrorClears(raw, line) ==
    IF line = RET_ERROR THEN EmptyMap
    ELSE IF IsDataFrame(line) THEN InsertMatches(raw, line)
    ELSE raw

\* the match on one received line
ClassifyLine(raw, line) ==
    IF line = RET_ERROR THEN raw
    ELSE IF IsDataFrame(line) THEN InsertMatches(raw, line)
    ELSE raw

RECURSIVE RecordLines(_, _, _)
RecordLines(raw, lines, i) ==
    IF i > Len(lines) THEN raw
    ELSE RecordLines(ClassifyLine(raw, lines[i]), lines, i + 1)

\* a decoder that reads a missing register as 0 (unwrap_or) instead of panicking
DecodeOrDefault(raw, value, radix) ==
    IF value.name \notin DOMAIN raw THEN 0
    ELSE FromStrRadix(raw[value.name], radix)

\* the registers of the elapsed time
TimeNames == {DISPLAY_SECONDS.name, DISPLAY_MINUTES.name, DISPLAY_HOURS.name}

\* the time registers the device has reported once it has written msg: what a
\* reader that gets every line whole has recorded
DeviceWrites(values, msg) ==
    LET all == RecordLines(values, Lines(msg), 1)
    IN [n \in DOMAIN all \cap TimeNames |-> all[n]]

\* the elapsed time these registers show, -1 while one of them has not been written
DeviceTime(values) ==
    IF TimeNames \subseteq DOMAIN values
    THEN FromStrRadix(values[DISPLAY_SECONDS.name], 10)
         + 60 * FromStrRadix(values[DISPLAY_MINUTES.name], 10)
         + 3600 * FromStrRadix(values[DISPLAY_HOURS.name], 10)
    ELSE -1

\* a slice decoder that parses the whole payload, whatever range is asked for
DecodeSliceWhole(raw, value, from, to, radix) ==
    IF value.name \notin DOMAIN raw THEN -1
    ELSE FromStrRadix(raw[value.name], radix)

\* a ratio without the 1.25 modifier
StrokeRatioNoModifier(stroke_time_avg, pull_time_avg) ==
    IF pull_time_avg > 0
    THEN Rat(stroke_time_avg - pull_time_avg, pull_time_avg)
    ELSE RatZero

\* a decoder that reads every register as hexadecimal
DecodeAlwaysHex(raw, value, radix) ==
    IF value.name \notin DOMAIN raw THEN -1
    ELSE FromStrRadix(raw[value.name], 16)

\* u32::from_str_radix(raw_values.get(name).unwrap(), radix).unwrap(): -1 is a panic
Decode(raw, value, radix) ==
    IF value.name \notin DOMAIN raw THEN -1
    ELSE FromStrRadix(raw[value.name], radix)

\* the same for &payload[from..to]
DecodeSlice(raw, value, from, to, radix) ==
    IF value.name \notin DOMAIN raw THEN -1
    ELSE IF ~SliceOk(raw[value.name], from, to) THEN -1
    ELSE FromStrRadix(Slice(raw[value.name], from, to), radix)

\* (stroke_time_avg - pull_time_avg) / (pull_time_avg * 1.25), or 0.0
StrokeRatio(stroke_time_avg, pull_time_avg) ==
    IF pull_time_avg > 0
    THEN Rat(4 * (stroke_time_avg - pull_time_avg), 5 * pull_time_avg)
    ELSE RatZero

\* instant_workout_values_update: [ok |-> FALSE] when any unwrap or slice panics
InstantWorkoutValuesUpdate(raw) ==
    LET secs == Decode(raw, DISPLAY_SECONDS, 10)
        mins == Decode(raw, DISPLAY_MINUTES, 10)
        hours == Decode(raw, DISPLAY_HOURS, 10)
        dist == Decode(raw, DISTANCE, 16)
        paceLo == DecodeSlice(raw, ZONE_SECONDS_PER_500M, 0, 2, 16)
        paceHi == DecodeSlice(raw, ZONE_SECONDS_PER_500M, 2, 4, 16)
        strokes == Decode(raw, STROKE_COUNT, 16)
        spm == Decode(raw, ZONE_STROKE_RATE, 16)
        stAvg == Decode(raw, STROKE_TIME_AVG, 16)
        ptAvg == Decode(raw, STROKE_PULL_TIME_AVG, 16)
        hr == Decode(raw, ZONE_HEART_RATE, 16)
    IN IF \E x \in {secs, mins, hours, dist, paceLo, paceHi, strokes, spm,
                    stAvg, ptAvg, hr} : x < 0
       THEN [ok |-> FALSE, iwv |-> instant_workout_values_init]
       ELSE [ok |-> TRUE,
             iwv |-> [time_in_seconds |-> secs + 60 * mins + 3600 * hours,
                      distance_in_meters |-> dist,
                      seconds_per_500m |-> paceLo + 256 * paceHi,
                      stroke_count |-> strokes,
                      strokes_per_minute |-> spm,
                      stroke_ratio |-> StrokeRatio(stAvg, ptAvg),
                      heart_rate |-> hr]]

\* a completion check without the "time > 0" guard
WorkoutEndedNoGuard(i, g) == i.time_in_seconds = g.total_time_in_seconds

\* the check "workout was ended on WaterRower device"
WorkoutEnded(i, g) ==
    i.time_in_seconds > 0 /\ i.time_in_seconds = g.total_time_in_seconds

\* an update that does not count the sample
global_workout_values_update_not_counting(i, g) ==
    [g EXCEPT !.total_time_in_seconds = i.time_in_seconds,
              !.total_distance_in_meters = i.distance_in_meters,
              !.total_stroke_count = i.stroke_count]

\* an update that adds the sample's distance to the total instead of replacing it
global_workout_values_update_adding(i, g) ==
    [g EXCEPT !.datapoints = g.datapoints + 1,
              !.total_time_in_seconds = i.time_in_seconds,
              !.total_distance_in_meters =
                  g.total_distance_in_meters + i.distance_in_meters,
              !.total_stroke_count = i.stroke_count]

global_workout_values_update(i, g) ==
    [g EXCEPT !.datapoints = g.datapoints + 1,
              !.total_time_in_seconds = i.time_in_seconds,
              !.total_distance_in_meters = i.distance_in_meters,
              !.total_stroke_count = i.stroke_count]

----------------------------------------------------------------------------
(* global_workout_values_finalize *)

\* a filter that lets zero through (>= 0)
ValidValuesWithZero(dps, f) ==
    SelectSeq([i \in 1..Len(dps) |-> dps[i][f]], LAMBDA v : v >= 0)

\* the values of one field that are pushed to its *_valid_values vector
ValidValues(dps, f) ==
    SelectSeq([i \in 1..Len(dps) |-> dps[i][f]], LAMBDA v : v > 0)

\* a filter that keeps every ratio other than 0.0
ValidRatiosNonZero(dps) ==
    SelectSeq([i \in 1..Len(dps) |-> dps[i].stroke_ratio], LAMBDA r : r.num # 0)

ValidRatios(dps) ==
    SelectSeq([i \in 1..Len(dps) |-> dps[i].stroke_ratio], LAMBDA r : r.num > 0)

RECURSIVE SeqSum(_, _)
SeqSum(s, i) == IF i > Len(s) THEN 0 ELSE s[i] + SeqSum(s, i + 1)

\* iter().min() / iter().max() of a non-empty vector
RECURSIVE SeqMin(_, _)
SeqMin(s, i) == IF i = Len(s) THEN s[i] ELSE Min2(s[i], SeqMin(s, i + 1))
RECURSIVE SeqMax(_, _)
SeqMax(s, i) ==
    IF i = Len(s) THEN s[i]
    ELSE LET m == SeqMax(s, i + 1) IN IF s[i] >= m THEN s[i] ELSE m

\* the loop over stroke_ratio_valid_values.iter().skip(1)
RECURSIVE RatFold(_, _, _, _)
RatFold(s, i, lo, hi) ==
    IF i > Len(s) THEN [min |-> lo, max |-> hi]
    ELSE RatFold(s, i + 1, RatMin(lo, s[i]), RatMax(hi, s[i]))

RECURSIVE RatSum(_, _)
RatSum(s, i) == IF i > Len(s) THEN RatZero ELSE RatAdd(s[i], RatSum(s, i + 1))

\* sum as f32 / len as f32
Mean(s) == Rat(SeqSum(s, 1), Len(s))

\* a finalize that also clears the running totals
global_workout_values_finalize_clearing(dps, g) ==
    LET hr == ValidValues(dps, "heart_rate")
        g0 == [g EXCEPT !.date_time_end = "end",
                        !.total_time_in_seconds = 0,
                        !.total_distance_in_meters = 0,
                        !.total_stroke_count = 0]
    IN IF hr = <<>> THEN g0
       ELSE [g0 EXCEPT !.heart_rate_min = SeqMin(hr, 1),
                       !.heart_rate_max = SeqMax(hr, 1),
                       !.heart_rate_avg = Mean(hr)]

\* a finalize that folds the heart-rate average into the one gwv already holds
global_workout_values_finalize_merging(dps, g) ==
    LET hr == ValidValues(dps, "heart_rate")
    IN IF hr = <<>> THEN [g EXCEPT !.date_time_end = "end"]
       ELSE [g EXCEPT !.date_time_end = "end",
                      !.heart_rate_min = SeqMin(hr, 1),
                      !.heart_rate_max = SeqMax(hr, 1),
                      !.heart_rate_avg = RatAdd(g.heart_rate_avg, Mean(hr))]

global_workout_values_finalize(dps, g) ==
    LET pace == ValidValues(dps, "seconds_per_500m")
        spm == ValidValues(dps, "strokes_per_minute")
        ratio == ValidRatios(dps)
        hr == ValidValues(dps, "heart_rate")
        g0 == [g EXCEPT !.date_time_end = "end"]
        g1 == IF pace # <<>>
              THEN [g0 EXCEPT !.seconds_per_500m_min = SeqMin(pace, 1),
                              !.seconds_per_500m_max = SeqMax(pace, 1),
                              !.seconds_per_500m_avg = Mean(pace)]
              ELSE g0
        g2 == IF spm # <<>>
              THEN [g1 EXCEPT !.strokes_per_minute_min = SeqMin(spm, 1),
                              !.strokes_per_minute_max = SeqMax(spm, 1),
                              !.strokes_per_minute_avg = Mean(spm)]
              ELSE g1
        g3 == IF ratio # <<>>
              THEN LET mm == RatFold(ratio, 2, ratio[1], ratio[1])
                       sum == RatSum(ratio, 1)
                   IN [g2 EXCEPT !.stroke_ratio_min = mm.min,
                                 !.stroke_ratio_max = mm.max,
                                 !.stroke_ratio_avg =
                                     Rat(sum.num, sum.den * Len(ratio))]
              ELSE g2
    IN IF hr # <<>>
       THEN [g3 EXCEPT !.heart_rate_min = SeqMin(hr, 1),
                       !.heart_rate_max = SeqMax(hr, 1),
                       !.heart_rate_avg = Mean(hr)]
       ELSE g3

----------------------------------------------------------------------------
(* main: one recording session *)

Init ==
    /\ pc = "start"
    /\ state = "Init"
    /\ wire = <<>>
    /\ sent = <<>>
    /\ serial_response = <<>>
    /\ raw_values = EmptyMap
    /\ nrecv = 0
    /\ iwv = instant_workout_values_init
    /\ datapoints = <<>>
    /\ gwv = GlobalWorkoutValuesNew
    /\ device = [prev |-> -1, cur |-> EmptyMap]

\* wr_utils::start
Start ==
    /\ pc = "start"
    /\ sent' = SerialSend(sent, CMD_START)
    /\ \E msg \in StartMessages : \E r \in SerialReceive(wire, msg) :
          /\ wire' = r.rest
          /\ serial_response' = r.response
          /\ state' = StartLines(state, Lines(r.response))
    /\ pc' = "gwv_init"
    /\ UNCHANGED <<raw_values, nrecv, iwv, datapoints, gwv, device>>

\* wr_utils::global_workout_values_init
GlobalWorkoutValuesInit ==
    /\ pc = "gwv_init"
    /\ sent' = SerialSend(sent, CMD_MODEL_INFO)
    /\ \E msg \in ModelInfoMessages : \E r \in SerialReceive(wire, msg) :
          LET g == ModelInfoLines([GlobalWorkoutValuesNew EXCEPT
                                      !.date_time_start = "start"],
                                  Lines(r.response), 1)
          IN /\ wire' = r.rest
             /\ serial_response' = r.response
             /\ IF g.ok
                THEN gwv' = g.gwv /\ pc' = "wait"
                ELSE gwv' = gwv /\ pc' = "panicked"
    /\ UNCHANGED <<state, raw_values, nrecv, iwv, datapoints, device>>

\* one iteration of the loop of wr_utils::wait_for_first_stroke
WaitForFirstStroke ==
    /\ pc = "wait"
    /\ \E msg \in WaitMessages : \E r \in SerialReceive(wire, msg) :
          /\ wire' = r.rest
          /\ serial_response' = r.response
          /\ state' = WaitLines(state, Lines(r.response))
    /\ pc' = IF state' = "Running" THEN "send" ELSE "wait"
    /\ UNCHANGED <<sent, raw_values, nrecv, iwv, datapoints, gwv, device>>

\* a loop that walks the catalog backwards
SendQueriesReversed(log, i) ==
    log \o [k \in 1..(Len(WATER_ROWER_VALUES) - i + 1) |->
               WATER_ROWER_VALUES[Len(WATER_ROWER_VALUES) - k + 1].command]

RECURSIVE SendQueries(_, _)
SendQueries(log, i) ==
    IF i > Len(WATER_ROWER_VALUES) THEN log
    ELSE SendQueries(SerialSend(log, WATER_ROWER_VALUES[i].command), i + 1)

\* a loop iteration of main begins: instant_workout_values_init, then
\* workout_values_update up to the collection window
PollSend ==
    /\ pc = "send"
    /\ Len(datapoints) < MaxCycles
    /\ iwv' = instant_workout_values_init
    /\ raw_values' = EmptyMap
    /\ sent' = SendQueries(sent, 1)
    /\ nrecv' = 0
    /\ pc' = "recv"
    /\ device' = [prev |-> DeviceTime(device.cur), cur |-> EmptyMap]
    /\ UNCHANGED <<state, wire, serial_response, datapoints, gwv>>

\* one iteration of the collection window
PollReceive ==
    /\ pc = "recv"
    /\ nrecv < MaxRecv
    /\ \E msg \in PollMessages : \E r \in SerialReceive(wire, msg) :
          /\ wire' = r.rest
          /\ serial_response' = r.response
          /\ raw_values' = RecordLines(raw_values, Lines(r.response), 1)
    /\ nrecv' = nrecv + 1
    /\ UNCHANGED <<pc, state, sent, iwv, datapoints, gwv, device>>

\* a loop that never checks for Finished
LoopNeverBreaks(st) == FALSE

\* whether main leaves its loop after workout_values_update
LoopBreaks(st) == st = "Finished"

\* the window has elapsed (the last response is out of scope): decoding, the
\* completion rule, and main's break or push
PollFinish ==
    /\ pc = "recv"
    /\ serial_response' = <<>>
    /\ LET d == InstantWorkoutValuesUpdate(raw_values)
           ended == WorkoutEnded(d.iwv, gwv)
           newState == IF ended THEN "Finished" ELSE state
       IN IF ~d.ok
          THEN /\ pc' = "panicked"
               /\ UNCHANGED <<state, iwv, datapoints, gwv>>
          ELSE /\ iwv' = d.iwv
               /\ state' = newState
               /\ gwv' = IF ended THEN gwv
                         ELSE global_workout_values_update(d.iwv, gwv)
               /\ IF LoopBreaks(newState)
                  THEN pc' = "stop" /\ datapoints' = datapoints
                  ELSE pc' = "send" /\ datapoints' = Append(datapoints, d.iwv)
    /\ UNCHANGED <<wire, sent, raw_values, nrecv, device>>

\* wr_utils::stop
Stop ==
    /\ pc = "stop"
    /\ sent' = SerialSend(sent, CMD_STOP)
    /\ pc' = "finalize"
    /\ UNCHANGED <<state, wire, serial_response, raw_values, nrecv, iwv, datapoints,
                   gwv, device>>

\* wr_utils::global_workout_values_finalize
Finalize ==
    /\ pc = "finalize"
    /\ gwv' = global_workout_values_finalize(datapoints, gwv)
    /\ pc' = "done"
    /\ UNCHANGED <<state, wire, sent, serial_response, raw_values, nrecv, iwv,
                   datapoints, device>>

Next ==
    \/ Start
    \/ GlobalWorkoutValuesInit
    \/ WaitForFirstStroke
    \/ PollSend
    \/ PollReceive
    \/ PollFinish
    \/ Stop
    \/ Finalize

Spec == Init /\ [][Next]_vars

----------------------------------------------------------------------------
(* global_workout_values_finalize called on a given sample sequence *)

\* samples as instant_workout_values_update can produce them: idle, rowing, and two
\* with some sensors silent (and the pull longer than the stroke, a ratio below 0)
FinSamples ==
    { instant_workout_values_init,
      [instant_workout_values_init EXCEPT
          !.seconds_per_500m = 266, !.strokes_per_minute = 24,
          !.stroke_ratio = StrokeRatio(100, 50), !.heart_rate = 140],
      [instant_workout_values_init EXCEPT
          !.strokes_per_minute = 30,
          !.stroke_ratio = StrokeRatio(50, 100), !.heart_rate = 150],
      [instant_workout_values_init EXCEPT
          !.seconds_per_500m = 300,
          !.stroke_ratio = StrokeRatio(100, 80)] }

SeqsUpTo(S, n) == UNION { [1..k -> S] : k \in 0..n }

FinInit ==
    /\ pc = "finalize"
    /\ state = "Finished"
    /\ wire = <<>>
    /\ sent = <<>>
    /\ serial_response = <<>>
    /\ raw_values = EmptyMap
    /\ nrecv = 0
    /\ iwv = instant_workout_values_init
    /\ datapoints \in SeqsUpTo(FinSamples, MaxSamples)
    /\ gwv = [GlobalWorkoutValuesNew EXCEPT
                 !.date_time_start = "start", !.datapoints = Len(datapoints)]
    /\ device = [prev |-> -1, cur |-> EmptyMap]

\* global_workout_values_finalize called once more on the same slice and summary
FinalizeAgain ==
    /\ pc = "done"
    /\ gwv' = global_workout_values_finalize(datapoints, gwv)
    /\ pc' = "done2"
    /\ UNCHANGED <<state, wire, sent, serial_response, raw_values, nrecv, iwv,
                   datapoints, device>>

FinNext ==
    \/ Finalize
    \/ FinalizeAgain

FinSpec == FinInit /\ [][FinNext]_vars

----------------------------------------------------------------------------
(* One polling cycle of a running session, with a device that also writes error
   frames, frames of registers outside the catalog, protocol lines and repeated
   answers *)

\* the answer of a register that is not in WATER_ROWER_VALUES (screen mode)
SCREEN_MODE_LINE == <<"I", "D", "S", "0", "0", "D", "0", "1">>
\* a three-byte answer (no catalog register has one)
THREE_BYTE_LINE == <<"I", "D", "T", "1", "E", "1", "0", "0", "0", "0", "0", "0">>

WindowMessages ==
    { <<>>,
      Line(RET_ERROR) \o ValueLine(DISPLAY_SECONDS, <<"0", "1">>),
      ValueLine(DISPLAY_SECONDS, <<"0", "0">>)
          \o ValueLine(DISPLAY_SECONDS, <<"0", "1">>),
      RestFrame(RestPayloads[1]),
      Line(RET_OK) \o Line(DISPLAY_MINUTES.response) \o Line(SCREEN_MODE_LINE)
          \o Line(<<>>) \o Line(WR_STROKE_START) \o Line(RET_HW_TYPE)
          \o Line(THREE_BYTE_LINE) \o ValueLine(DISPLAY_SECONDS, <<"0", "0">>) }

\* the RawValueMap of a cycle in which every register was answered
FullMap(seconds, rest) == rest @@ (DISPLAY_SECONDS.name :> seconds)

\* the samples of the earlier cycles: idle ones at 0 s, then one rowing at 1 s
EarlierSamples ==
    [i \in 1..(MaxCycles - 1) |->
        IF i = MaxCycles - 1
        THEN InstantWorkoutValuesUpdate(FullMap(<<"0", "1">>, RestPayloads[1])).iwv
        ELSE InstantWorkoutValuesUpdate(FullMap(<<"0", "0">>, RestPayloads[2])).iwv]

RECURSIVE EarlierQueries(_, _)
EarlierQueries(log, n) ==
    IF n = 0 THEN log ELSE EarlierQueries(SendQueries(log, 1), n - 1)

\* main is about to start the loop iteration after EarlierSamples were appended
WinInit ==
    /\ pc = "send"
    /\ state = "Running"
    /\ wire = <<>>
    /\ sent = EarlierQueries(<<CMD_START, CMD_MODEL_INFO>>, MaxCycles - 1)
    /\ serial_response = <<>>
    /\ raw_values = FullMap(<<"0", "1">>, RestPayloads[1])
    /\ nrecv = MaxRecv
    /\ iwv = EarlierSamples[MaxCycles - 1]
    /\ datapoints = EarlierSamples
    /\ gwv = [GlobalWorkoutValuesNew EXCEPT
                 !.date_time_start = "start",
                 !.model = <<"4">>,
                 !.fw_version = <<"1", "2", ".", "1", "3">>,
                 !.datapoints = MaxCycles - 1,
                 !.total_time_in_seconds = iwv.time_in_seconds,
                 !.total_distance_in_meters = iwv.distance_in_meters,
                 !.total_stroke_count = iwv.stroke_count]
    /\ device = [prev |-> IF MaxCycles > 2 THEN 0 ELSE -1,
                 cur |-> [n \in TimeNames |-> raw_values[n]]]

\* one iteration of the collection window; what the device wrote is noted
WindowReceive ==
    /\ pc = "recv"
    /\ nrecv < MaxRecv
    /\ \E msg \in WindowMessages : \E r \in SerialReceive(wire, msg) :
          /\ wire' = r.rest
          /\ serial_response' = r.response
          /\ raw_values' = RecordLines(raw_values, Lines(r.response), 1)
          /\ device' = [device EXCEPT !.cur = DeviceWrites(@, msg)]
    /\ nrecv' = nrecv + 1
    /\ UNCHANGED <<pc, state, sent, iwv, datapoints, gwv>>

WinNext ==
    \/ PollSend
    \/ WindowReceive
    \/ PollFinish
    \/ Stop
    \/ Finalize

WindowSpec == WinInit /\ [][WinNext]_vars

----------------------------------------------------------------------------
(* instant_workout_values_update applied to the RawValueMap a collection window
   has left *)

\* payloads of the seconds-per-500m register: four hex characters in either
\* case, and one that is too short for &payload[2..4]
PacePayloads ==
    { <<"0", "A", "0", "1">>, <<"0", "0", "0", "0">>, <<"2", "C", "0", "1">>,
      <<"F", "F", "0", "0">>, <<"0", "0", "F", "F">>, <<"f", "f", "f", "f">>,
      <<"1", "2", "3", "4">>, <<"0", "A">> }

\* payloads of the stroke time average and the stroke pull-time average
StrokeTimePayloads ==
    { << <<"6", "4">>, <<"3", "2">> >>, << <<"6", "4">>, <<"0", "0">> >>,
      << <<"0", "0">>, <<"0", "0">> >>, << <<"3", "2">>, <<"6", "4">> >>,
      << <<"6", "4">>, <<"5", "0">> >>, << <<"F", "F">>, <<"0", "1">> >>,
      << <<"3", "2">>, <<"3", "2">> >>, << <<"1", "E">>, <<"0", "C">> >> }

\* payloads of the display seconds, minutes and hours: two decimal digits, one
\* decimal digit, and one with a hex digit that is no decimal digit
TimePayloads ==
    { << <<"0", "5">>, <<"0", "2">>, <<"0", "1">> >>,
      << <<"5", "9">>, <<"5", "9">>, <<"9", "9">> >>,
      << <<"1", "0">>, <<"0", "0">>, <<"0", "0">> >>,
      << <<"0", "0">>, <<"1", "0">>, <<"0", "0">> >>,
      << <<"0", "0">>, <<"0", "0">>, <<"1", "0">> >>,
      << <<"7">>, <<"3">>, <<"2">> >>,
      << <<"0", "A">>, <<"0", "0">>, <<"0", "0">> >> }

\* payloads of distance, stroke count, stroke rate and heart rate
HexPayloads ==
    { << <<"0", "1", "0", "0">>, <<"0", "0", "0", "A">>, <<"1", "8">>, <<"8", "C">> >>,
      << <<"F", "F", "F", "F">>, <<"0", "1", "0", "0">>, <<"F", "F">>, <<"0", "0">> >>,
      << <<"0", "0", "f", "f">>, <<"1", "2", "3", "4">>, <<"0", "a">>, <<"7", "F">> >>,
      << <<"1", "0">>, <<"A", "B", "C">>, <<"1">>, <<"1", "0", "0">> >>,
      << <<"0", "0", "0", "0">>, <<"0", "0", "0", "0">>, <<"1", "0">>, <<"0", "1">> >> }

DecodeMaps ==
    { [FullMap(<<"0", "1">>, RestPayloads[1]) EXCEPT
          ![ZONE_SECONDS_PER_500M.name] = p,
          ![STROKE_TIME_AVG.name] = t[1],
          ![STROKE_PULL_TIME_AVG.name] = t[2]] :
        p \in PacePayloads, t \in StrokeTimePayloads }
    \cup
    { [FullMap(t[1], RestPayloads[1]) EXCEPT
          ![DISPLAY_MINUTES.name] = t[2],
          ![DISPLAY_HOURS.name] = t[3]] : t \in TimePayloads }
    \cup
    { [FullMap(<<"0", "1">>, RestPayloads[1]) EXCEPT
          ![ZONE_SECONDS_PER_500M.name] = <<"0", "1", "0", "0">>,
          ![DISTANCE.name] = h[1],
          ![STROKE_COUNT.name] = h[2],
          ![ZONE_STROKE_RATE.name] = h[3],
          ![ZONE_HEART_RATE.name] = h[4]] : h \in HexPayloads }

\* the collection window of the first cycle has elapsed
DecodeInit ==
    /\ pc = "recv"
    /\ state = "Running"
    /\ wire = <<>>
    /\ sent = SendQueries(<<CMD_START, CMD_MODEL_INFO>>, 1)
    /\ serial_response = <<>>
    /\ raw_values \in DecodeMaps
    /\ nrecv = MaxRecv
    /\ iwv = instant_workout_values_init
    /\ datapoints = <<>>
    /\ gwv = [GlobalWorkoutValuesNew EXCEPT
                 !.date_time_start = "start",
                 !.model = <<"4">>,
                 !.fw_version = <<"1", "2", ".", "1", "3">>]
    /\ device = [prev |-> -1, cur |-> [n \in TimeNames |-> raw_values[n]]]

DecodeNext == PollFinish

DecodeSpec == DecodeInit /\ [][DecodeNext]_vars

----------------------------------------------------------------------------
(* Properties *)

Range(s) == { s[i] : i \in 1..Len(s) }
Count(s, x) == Cardinality({ i \in 1..Len(s) : s[i] = x })
CatalogNames == { WATER_ROWER_VALUES[i].name : i \in 1..Len(WATER_ROWER_VALUES) }
CatalogEntry(name) ==
    WATER_ROWER_VALUES[CHOOSE i \in 1..Len(WATER_ROWER_VALUES) :
                           WATER_ROWER_VALUES[i].name = name]
\* the step in which a collection window ends
WindowEnds == pc = "recv" /\ pc' # "recv"

\* C1: the state changes only Init->Connected in start, Connected->Running in
\* wait_for_first_stroke and Running->Finished in workout_values_update; no state
\* is skipped or left backwards.
C1_OnlyLegalTransitions ==
    [][state' # state =>
          \/ state = "Init" /\ state' = "Connected" /\ pc = "start"
          \/ state = "Connected" /\ state' = "Running" /\ pc = "wait"
          \/ state = "Running" /\ state' = "Finished" /\ pc = "recv"]_vars

\* C2: a cycle that decodes elapsed time t finishes the session, appends nothing
\* and leaves the count and the totals alone exactly when t > 0 and t equals the
\* running elapsed-time total; every other decoded cycle appends the sample and
\* stays Running.
C2_CompletionRule ==
    [][WindowEnds /\ pc' # "panicked" =>
          LET t == iwv'.time_in_seconds
          IN IF t > 0 /\ t = gwv.total_time_in_seconds
             THEN state' = "Finished" /\ datapoints' = datapoints /\ gwv' = gwv
             ELSE /\ state' = "Running"
                  /\ datapoints' = Append(datapoints, iwv')
                  /\ Len(datapoints') = Len(datapoints) + 1]_vars

C2_Witness ==
    /\ pc = "stop" /\ state = "Finished"
    /\ Len(datapoints) = 1
    /\ iwv.time_in_seconds > 0
    /\ datapoints[1].time_in_seconds = iwv.time_in_seconds
    /\ gwv.datapoints = 1

\* C3: once Finished, the state stays Finished, no sample is appended and no
\* register query is sent; EXIT is sent only after Finished, nothing is sent after
\* it, and a session that ends has sent it exactly once.
C3_FinishedTerminal ==
    [][/\ state = "Finished" =>
             /\ state' = "Finished"
             /\ sent' = sent \/ sent' = Append(sent, CMD_STOP)
       /\ state' = "Finished" => datapoints' = datapoints
       /\ sent' # sent /\ sent'[Len(sent')] = CMD_STOP => state = "Finished"
       /\ CMD_STOP \in Range(sent) => sent' = sent
       /\ pc' = "done" => Count(sent', CMD_STOP) = 1]_vars

C3_Witness ==
    /\ pc = "done" /\ state = "Finished"
    /\ sent[Len(sent)] = CMD_STOP
    /\ Count(sent, DISPLAY_SECONDS.command) = 2
    /\ Len(datapoints) = 1

\* C4: every appended sample has an elapsed time strictly greater than that of
\* the sample appended before it.
C4_StrictlyTimeOrdered ==
    \A i \in 1..(Len(datapoints) - 1) :
        datapoints[i].time_in_seconds < datapoints[i + 1].time_in_seconds

\* C5: the running totals equal the elapsed time, distance and stroke count of
\* the last sample of the sequence, and are zero while the sequence is empty.
C5_TotalsAreLastSample ==
    IF datapoints = <<>>
    THEN /\ gwv.total_time_in_seconds = 0
         /\ gwv.total_distance_in_meters = 0
         /\ gwv.total_stroke_count = 0
    ELSE LET last == datapoints[Len(datapoints)]
         IN /\ gwv.total_time_in_seconds = last.time_in_seconds
            /\ gwv.total_distance_in_meters = last.distance_in_meters
            /\ gwv.total_stroke_count = last.stroke_count

C5_Witness ==
    /\ pc = "send"
    /\ Len(datapoints) = 2
    /\ datapoints[1].distance_in_meters = 256
    /\ datapoints[2].distance_in_meters = 256
    /\ datapoints[1].time_in_seconds = 0
    /\ gwv.total_time_in_seconds = 1
    /\ gwv.total_distance_in_meters = 256
    /\ gwv.total_stroke_count = 10

\* C6: every payload recorded in the RawValueMap is the complete payload of one
\* response line as the device sent it, also when a line arrives split across two
\* receive calls.
C6_PayloadsComplete ==
    \A name \in DOMAIN raw_values :
        (CatalogEntry(name).response \o raw_values[name]) \in DeviceLines

\* C7: the RawValueMap starts empty in every cycle, and a window that ends with
\* no payload recorded for some catalog register aborts the cycle: no sample is
\* appended and the state, the datapoint count and the totals do not change.
C7_MissingRegisterAborts ==
    [][/\ pc = "send" /\ pc' = "recv" => raw_values' = EmptyMap
       /\ WindowEnds /\ DOMAIN raw_values # CatalogNames =>
             /\ pc' = "panicked"
             /\ datapoints' = datapoints
             /\ state' = state
             /\ gwv' = gwv]_vars

C7_Witness ==
    /\ pc = "panicked"
    /\ Len(datapoints) = 1
    /\ DISPLAY_SECONDS.name \notin DOMAIN raw_values
    /\ DISPLAY_MINUTES.name \in DOMAIN raw_values
    /\ gwv.datapoints = 1

\* C8: when start returns, the state is Connected if some line of the response
\* equals _WR_, whatever surrounds it and however often it repeats, and Init
\* otherwise; start produces no other state.
C8_StartConnects ==
    [][pc = "start" =>
          LET lines == Lines(serial_response')
          IN /\ pc' = "gwv_init"
             /\ sent' = <<CMD_START>>
             /\ state' = IF RET_HW_TYPE \in Range(lines)
                         THEN "Connected" ELSE "Init"]_vars

C8_Witness ==
    /\ pc = "gwv_init"
    /\ state = "Connected"
    /\ Count(Lines(serial_response), RET_HW_TYPE) = 2

\* the samples whose value for a field is strictly positive
Positive(f) == { i \in 1..Len(datapoints) : datapoints[i][f] > 0 }
PositiveRatio == { i \in 1..Len(datapoints) : datapoints[i].stroke_ratio.num > 0 }

RECURSIVE SumOver(_, _)
SumOver(S, f) ==
    IF S = {} THEN 0
    ELSE LET i == CHOOSE x \in S : TRUE
         IN datapoints[i][f] + SumOver(S \ {i}, f)

\* a common denominator of the ratios of the samples in S, and their sum over it
RECURSIVE DenOver(_)
DenOver(S) ==
    IF S = {} THEN 1
    ELSE LET i == CHOOSE x \in S : TRUE
         IN datapoints[i].stroke_ratio.den * DenOver(S \ {i})
RECURSIVE NumOver(_, _)
NumOver(S, D) ==
    IF S = {} THEN 0
    ELSE LET i == CHOOSE x \in S : TRUE
             r == datapoints[i].stroke_ratio
         IN r.num * (D \div r.den) + NumOver(S \ {i}, D)

\* lo, avg and hi are the minimum, mean and maximum of field f over Positive(f)
IsStatsOf(f, lo, avg, hi) ==
    LET P == Positive(f)
    IN /\ \E i \in P : datapoints[i][f] = lo
       /\ \A i \in P : lo <= datapoints[i][f]
       /\ \E i \in P : datapoints[i][f] = hi
       /\ \A i \in P : datapoints[i][f] <= hi
       /\ avg.den > 0
       /\ avg.num * Cardinality(P) = SumOver(P, f) * avg.den

IsRatioStats(lo, avg, hi) ==
    LET P == PositiveRatio
        D == DenOver(P)
        below(a, b) == a.num * b.den < b.num * a.den
    IN /\ \E i \in P : datapoints[i].stroke_ratio = lo
       /\ \A i \in P : ~below(datapoints[i].stroke_ratio, lo)
       /\ \E i \in P : datapoints[i].stroke_ratio = hi
       /\ \A i \in P : ~below(hi, datapoints[i].stroke_ratio)
       /\ avg.den > 0
       /\ avg.num * D * Cardinality(P) = NumOver(P, D) * avg.den

\* C9: after global_workout_values_finalize, each of pace, stroke rate, stroke
\* ratio and heart rate that has a strictly positive value reports the minimum,
\* the arithmetic mean and the maximum over exactly its strictly positive values.
C9_StatsOverPositiveSamples ==
    pc = "done" =>
        /\ Positive("seconds_per_500m") # {} =>
              IsStatsOf("seconds_per_500m", gwv.seconds_per_500m_min,
                        gwv.seconds_per_500m_avg, gwv.seconds_per_500m_max)
        /\ Positive("strokes_per_minute") # {} =>
              IsStatsOf("strokes_per_minute", gwv.strokes_per_minute_min,
                        gwv.strokes_per_minute_avg, gwv.strokes_per_minute_max)
        /\ PositiveRatio # {} =>
              IsRatioStats(gwv.stroke_ratio_min, gwv.stroke_ratio_avg,
                           gwv.stroke_ratio_max)
        /\ Positive("heart_rate") # {} =>
              IsStatsOf("heart_rate", gwv.heart_rate_min, gwv.heart_rate_avg,
                        gwv.heart_rate_max)

C9_Witness ==
    /\ pc = "done"
    /\ [i \in 1..Len(datapoints) |-> datapoints[i].heart_rate] = <<0, 140, 0, 150>>
    /\ gwv.heart_rate_min = 140
    /\ gwv.heart_rate_avg = [num |-> 145, den |-> 1]
    /\ gwv.heart_rate_max = 150

\* C10: a field with no strictly positive value in any sample of the sequence
\* (an empty sequence included) reports min = avg = max = 0.
C10_NoPositiveSampleAllZero ==
    pc = "done" =>
        /\ Positive("seconds_per_500m") = {} =>
              /\ gwv.seconds_per_500m_min = 0
              /\ gwv.seconds_per_500m_avg = RatZero
              /\ gwv.seconds_per_500m_max = 0
        /\ Positive("strokes_per_minute") = {} =>
              /\ gwv.strokes_per_minute_min = 0
              /\ gwv.strokes_per_minute_avg = RatZero
              /\ gwv.strokes_per_minute_max = 0
        /\ PositiveRatio = {} =>
              /\ gwv.stroke_ratio_min = RatZero
              /\ gwv.stroke_ratio_avg = RatZero
              /\ gwv.stroke_ratio_max = RatZero
        /\ Positive("heart_rate") = {} =>
              /\ gwv.heart_rate_min = 0
              /\ gwv.heart_rate_avg = RatZero
              /\ gwv.heart_rate_max = 0

C10_Witness ==
    /\ pc = "done"
    /\ Len(datapoints) = 2
    /\ Positive("seconds_per_500m") = {}
    /\ PositiveRatio = {}
    /\ \A i \in 1..2 : datapoints[i].stroke_ratio.num < 0
    /\ Positive("heart_rate") # {}
    /\ gwv.stroke_ratio_min = RatZero

\* the statistics, the datapoint count and the running totals of a summary
Summary(g) ==
    << g.seconds_per_500m_min, g.seconds_per_500m_avg, g.seconds_per_500m_max,
       g.strokes_per_minute_min, g.strokes_per_minute_avg, g.strokes_per_minute_max,
       g.stroke_ratio_min, g.stroke_ratio_avg, g.stroke_ratio_max,
       g.heart_rate_min, g.heart_rate_avg, g.heart_rate_max,
       g.datapoints, g.total_time_in_seconds, g.total_distance_in_meters,
       g.total_stroke_count >>

\* C11: running global_workout_values_finalize a second time on the same sample
\* sequence leaves every min/avg/max statistic, the datapoint count and the
\* running totals as the first run left them.
C11_FinalizeIdempotent ==
    [][pc = "done" => pc' = "done2" /\ Summary(gwv') = Summary(gwv)]_vars

C11_Witness ==
    /\ pc = "done2"
    /\ Len(datapoints) = 3
    /\ gwv.datapoints = 3
    /\ gwv.heart_rate_avg = [num |-> 145, den |-> 1]
    /\ gwv.seconds_per_500m_avg = [num |-> 283, den |-> 1]
    /\ gwv.stroke_ratio_max = [num |-> 4, den |-> 5]

\* the step of one receive call inside a collection window
ReceiveStep == pc = "recv" /\ nrecv' = nrecv + 1

\* a line that answers a catalog register: more than 6 characters, the first 6 of
\* which are the register's response prefix; the register and the payload it names
CatalogFrame(line) ==
    /\ Len(line) > 6
    /\ \E i \in 1..Len(WATER_ROWER_VALUES) :
           SubSeq(line, 1, 6) = WATER_ROWER_VALUES[i].response
FrameName(line) ==
    WATER_ROWER_VALUES[CHOOSE i \in 1..Len(WATER_ROWER_VALUES) :
                           SubSeq(line, 1, 6) = WATER_ROWER_VALUES[i].response].name
Payload(line) == SubSeq(line, 7, Len(line))

\* the map after a line: a catalog frame sets its register to its payload, every
\* other line changes nothing
Recorded(raw, line) ==
    IF CatalogFrame(line)
    THEN [n \in DOMAIN raw \cup {FrameName(line)} |->
             IF n = FrameName(line) THEN Payload(line) ELSE raw[n]]
    ELSE raw
RECURSIVE RecordedAll(_, _, _)
RecordedAll(raw, lines, i) ==
    IF i > Len(lines) THEN raw
    ELSE RecordedAll(Recorded(raw, lines[i]), lines, i + 1)

\* C12: a line exactly equal to ERROR records no value, does not change the
\* session state and does not end the cycle; the lines after it are recorded as
\* if it had not been there.
C12_ErrorFrameNonFatal ==
    [][ReceiveStep =>
          LET L == Lines(serial_response')
              others == SelectSeq(L, LAMBDA l : l # RET_ERROR)
          IN RET_ERROR \in Range(L) =>
                /\ state' = state
                /\ pc' = "recv"
                /\ raw_values' = RecordedAll(raw_values, others, 1)
                /\ \A k \in 1..Len(L) : \A j \in (k + 1)..Len(L) :
                       L[k] = RET_ERROR /\ CatalogFrame(L[j]) =>
                          FrameName(L[j]) \in DOMAIN raw_values']_vars

C12_Witness ==
    /\ pc = "recv"
    /\ state = "Running"
    /\ nrecv = 2
    /\ Lines(serial_response) = <<RET_ERROR, DISPLAY_SECONDS.response \o <<"0", "1">> >>
    /\ DOMAIN raw_values = CatalogNames
    /\ raw_values[DISPLAY_SECONDS.name] = <<"0", "1">>
    /\ raw_values[ZONE_HEART_RATE.name] = <<"8", "C">>

\* the value of the two hex characters a, b read as one byte
HexValue(c) ==
    CHOOSE v \in 0..15 : c = DigitChars[v + 1] \/ c = LowerDigitChars[v + 1]
HexByte(a, b) == 16 * HexValue(a) + HexValue(b)

\* the step in which a sample has been decoded from the map of the window
Decoded == pc = "send" /\ datapoints # <<>> /\ iwv = datapoints[Len(datapoints)]

\* C13: for a 4-hex-character payload of the seconds-per-500m register the
\* decoded pace is hex(chars[0..2]) + 256 * hex(chars[2..4]), low byte first.
C13_PaceLowByteFirst ==
    Decoded =>
        LET p == raw_values[ZONE_SECONDS_PER_500M.name]
        IN Len(p) = 4 =>
              iwv.seconds_per_500m = HexByte(p[1], p[2]) + 256 * HexByte(p[3], p[4])

C13_Witness ==
    /\ Decoded
    /\ raw_values[ZONE_SECONDS_PER_500M.name] = <<"0", "A", "0", "1">>
    /\ iwv.seconds_per_500m = 266
    /\ raw_values[STROKE_PULL_TIME_AVG.name] = <<"0", "0">>

ModelInfoFormat(line) == Len(line) = 7 /\ SubSeq(line, 1, 2) = RET_MODEL_INFO

\* C15: global_workout_values_init returns for any response to IV?; the last line
\* of the IV format sets the model to its third character and the firmware
\* version to "high.low", every other line (empty or shorter than the format
\* included) leaves both as they are, and the session state does not change.
C15_ModelInfoQuery ==
    [][pc = "gwv_init" =>
          LET L == Lines(serial_response')
              F == { k \in 1..Len(L) : ModelInfoFormat(L[k]) }
              last == CHOOSE k \in F : \A j \in F : j <= k
          IN /\ pc' = "wait"
             /\ state' = state
             /\ IF F = {}
                THEN gwv'.model = <<>> /\ gwv'.fw_version = <<>>
                ELSE /\ gwv'.model = <<L[last][3]>>
                     /\ gwv'.fw_version =
                            <<L[last][4], L[last][5], ".", L[last][6], L[last][7]>>]_vars

\* C16: a received line adds or changes an entry of the RawValueMap exactly when
\* it is longer than 6 characters and begins with the response prefix of a catalog
\* register, and the entry is then everything after the prefix; every other line
\* leaves the map alone, and no line changes the session state.
C16_DataFrameClassification ==
    [][ReceiveStep =>
          /\ raw_values' = RecordedAll(raw_values, Lines(serial_response'), 1)
          /\ state' = state]_vars

C16_Witness ==
    /\ pc = "recv"
    /\ nrecv = 1
    /\ Lines(serial_response) =
          << RET_OK, DISPLAY_MINUTES.response, SCREEN_MODE_LINE, <<>>,
             WR_STROKE_START, RET_HW_TYPE, THREE_BYTE_LINE,
             DISPLAY_SECONDS.response \o <<"0", "0">> >>
    /\ DOMAIN raw_values = {DISPLAY_SECONDS.name}
    /\ raw_values[DISPLAY_SECONDS.name] = <<"0", "0">>
    /\ state = "Running"

\* the lines of a response that answer the register called name
FramesOf(L, name) ==
    { k \in 1..Len(L) : CatalogFrame(L[k]) /\ FrameName(L[k]) = name }

\* C17: within one cycle the last data frame received for a register wins, in one
\* receive call or across several, whatever the order of arrival; the sample is
\* decoded from these last payloads.
C17_LastFrameWins ==
    [][/\ ReceiveStep =>
             LET L == Lines(serial_response')
             IN \A name \in CatalogNames :
                   LET F == FramesOf(L, name)
                   IN IF F = {}
                      THEN /\ name \in DOMAIN raw_values' <=> name \in DOMAIN raw_values
                           /\ name \in DOMAIN raw_values =>
                                  raw_values'[name] = raw_values[name]
                      ELSE raw_values'[name] =
                               Payload(L[CHOOSE k \in F : \A j \in F : j <= k])
       /\ WindowEnds /\ pc' # "panicked" =>
             /\ iwv'.time_in_seconds =
                    FromStrRadix(raw_values[DISPLAY_SECONDS.name], 10)
                    + 60 * FromStrRadix(raw_values[DISPLAY_MINUTES.name], 10)
                    + 3600 * FromStrRadix(raw_values[DISPLAY_HOURS.name], 10)
             /\ iwv'.distance_in_meters = FromStrRadix(raw_values[DISTANCE.name], 16)
             /\ iwv'.stroke_count = FromStrRadix(raw_values[STROKE_COUNT.name], 16)
             /\ iwv'.strokes_per_minute =
                    FromStrRadix(raw_values[ZONE_STROKE_RATE.name], 16)
             /\ iwv'.heart_rate = FromStrRadix(raw_values[ZONE_HEART_RATE.name], 16)]_vars

C17_Witness ==
    /\ pc = "recv"
    /\ nrecv = 2
    /\ Lines(serial_response) =
          << DISPLAY_SECONDS.response \o <<"0", "0">>,
             DISPLAY_SECONDS.response \o <<"0", "1">> >>
    /\ DOMAIN raw_values = CatalogNames
    /\ raw_values[DISPLAY_SECONDS.name] = <<"0", "1">>
    /\ raw_values[DISPLAY_HOURS.name] = <<"0", "0">>

\* the ten query commands in catalog order
TenQueries ==
    << "IRS1E1", "IRS1E2", "IRS1E3", "IRD055", "IRD140", "IRS142", "IRS143",
       "IRS1A0", "IRD1A5", "IRS1A9" >>
RECURSIVE Repeat(_, _)
Repeat(s, n) == IF n = 0 THEN <<>> ELSE s \o Repeat(s, n - 1)

\* C18: every polling cycle sends exactly the ten catalog queries, in catalog
\* order, and all of them before the first receive call of the cycle: inside the
\* k-th collection window the commands sent are USB, IV? and k times the ten
\* queries, whatever number of receive calls the window has made.
C18_TenQueriesBeforeReceive ==
    /\ pc = "recv" =>
          sent = <<CMD_START, CMD_MODEL_INFO>>
                     \o Repeat(TenQueries, Len(datapoints) + 1)
    /\ pc = "send" =>
          sent = <<CMD_START, CMD_MODEL_INFO>> \o Repeat(TenQueries, Len(datapoints))

C18_Witness ==
    /\ pc = "recv"
    /\ nrecv = 0
    /\ Len(datapoints) = 1
    /\ Len(sent) = 22
    /\ SubSeq(sent, 13, 22) = TenQueries

\* C19: before wait_for_first_stroke returns, the commands sent are USB and then
\* IV? only, no sample is recorded and the state is not Running; it returns only
\* from a receive call of its own whose response holds a line exactly SS, with the
\* state Running, and it goes on waiting after every other response.
C19_NothingBeforeFirstStroke ==
    /\ pc \in {"start", "gwv_init", "wait"} =>
          /\ datapoints = <<>>
          /\ state # "Running"
          /\ \A i \in 1..Len(sent) : sent[i] \in {CMD_START, CMD_MODEL_INFO}
    /\ pc = "wait" => sent = <<CMD_START, CMD_MODEL_INFO>>
    /\ pc = "send" /\ datapoints = <<>> =>
          /\ sent = <<CMD_START, CMD_MODEL_INFO>>
          /\ state = "Running"
          /\ WR_STROKE_START \in Range(Lines(serial_response))

C19_Witness ==
    /\ pc = "send"
    /\ datapoints = <<>>
    /\ state = "Running"
    /\ Lines(serial_response) = <<RET_OK, WR_STROKE_START>>
    /\ gwv.model = <<"4">>

\* C20: once Running, when the device reports the same nonzero elapsed time in
\* two consecutive cycles and every register was answered, the second of these
\* cycles ends with the session Finished and the polling loop left (EXIT follows).
C20_SameTimeTwiceFinishes ==
    [][/\ WindowEnds
       /\ DOMAIN raw_values = CatalogNames
       /\ device.prev > 0
       /\ DeviceTime(device.cur) = device.prev
       => state' = "Finished" /\ pc' = "stop"]_vars

\* the fields of the summary that global_workout_values_finalize may write
FinalizeWrites ==
    { "date_time_end",
      "seconds_per_500m_min", "seconds_per_500m_avg", "seconds_per_500m_max",
      "strokes_per_minute_min", "strokes_per_minute_avg", "strokes_per_minute_max",
      "stroke_ratio_min", "stroke_ratio_avg", "stroke_ratio_max",
      "heart_rate_min", "heart_rate_avg", "heart_rate_max" }

\* C21: global_workout_values_finalize changes neither the sample sequence nor
\* the session state, and of the summary it writes only the end timestamp and the
\* twelve min/avg/max fields: the datapoint count, the three running totals, the
\* start timestamp, the model and the firmware version stay as they were.
C21_FinalizeFrame ==
    [][pc = "finalize" =>
          /\ pc' = "done"
          /\ datapoints' = datapoints
          /\ state' = state
          /\ sent' = sent
          /\ DOMAIN gwv' = DOMAIN gwv
          /\ \A f \in DOMAIN gwv \ FinalizeWrites : gwv'[f] = gwv[f]]_vars

C21_Witness ==
    /\ pc = "done"
    /\ state = "Finished"
    /\ Len(datapoints) = MaxCycles - 1
    /\ gwv.date_time_end = "end"
    /\ gwv.model = <<"4">>
    /\ gwv.datapoints = MaxCycles - 1
    /\ gwv.total_time_in_seconds = 1
    /\ gwv.total_distance_in_meters = 256
    /\ gwv.total_stroke_count = 10
    /\ gwv.heart_rate_max = 140

\* the number a string of digits denotes in a radix, most significant digit first
DigitValue(c) ==
    CHOOSE v \in 0..15 : c = DigitChars[v + 1] \/ c = LowerDigitChars[v + 1]
IsNumber(s, radix) ==
    /\ s # <<>>
    /\ \A i \in 1..Len(s) :
           \E v \in 0..(radix - 1) : s[i] = DigitChars[v + 1] \/ s[i] = LowerDigitChars[v + 1]
RECURSIVE NumberOf(_, _)
NumberOf(s, radix) ==
    IF s = <<>> THEN 0
    ELSE radix * NumberOf(SubSeq(s, 1, Len(s) - 1), radix) + DigitValue(s[Len(s)])

\* C22: the elapsed time of a sample is seconds + 60 * minutes + 3600 * hours of
\* the three display registers, each payload read as a decimal number.
C22_ElapsedTimeDecimal ==
    Decoded =>
        LET sec == raw_values[DISPLAY_SECONDS.name]
            min == raw_values[DISPLAY_MINUTES.name]
            hrs == raw_values[DISPLAY_HOURS.name]
        IN IsNumber(sec, 10) /\ IsNumber(min, 10) /\ IsNumber(hrs, 10) =>
              iwv.time_in_seconds =
                  NumberOf(sec, 10) + 60 * NumberOf(min, 10) + 3600 * NumberOf(hrs, 10)

C22_Witness ==
    /\ Decoded
    /\ raw_values[DISPLAY_SECONDS.name] = <<"0", "5">>
    /\ raw_values[DISPLAY_MINUTES.name] = <<"0", "2">>
    /\ raw_values[DISPLAY_HOURS.name] = <<"0", "1">>
    /\ iwv.time_in_seconds = 3725

\* C23: distance, stroke count, stroke rate and heart rate are the register's
\* whole payload read as one hexadecimal number, most significant digit first
\* (the distance is not recomposed low byte first as the pace is).
C23_WholePayloadHex ==
    Decoded =>
        /\ iwv.distance_in_meters = NumberOf(raw_values[DISTANCE.name], 16)
        /\ iwv.stroke_count = NumberOf(raw_values[STROKE_COUNT.name], 16)
        /\ iwv.strokes_per_minute = NumberOf(raw_values[ZONE_STROKE_RATE.name], 16)
        /\ iwv.heart_rate = NumberOf(raw_values[ZONE_HEART_RATE.name], 16)

C23_Witness ==
    /\ Decoded
    /\ raw_values[DISTANCE.name] = <<"0", "1", "0", "0">>
    /\ raw_values[ZONE_SECONDS_PER_500M.name] = <<"0", "1", "0", "0">>
    /\ iwv.distance_in_meters = 256
    /\ iwv.seconds_per_500m = 1

\* C24: the datapoint count of the summary equals the length of the sample
\* sequence after every step of the session, the finishing cycle included, and a
\* polling cycle raises both by one or leaves both as they are.
C24_CountIsLength ==
    [][/\ gwv.datapoints = Len(datapoints)
       /\ gwv'.datapoints = Len(datapoints')
       /\ Len(datapoints') \in {Len(datapoints), Len(datapoints) + 1}
       /\ Len(datapoints') # Len(datapoints) =>
              WindowEnds /\ datapoints' = Append(datapoints, iwv')]_vars

C24_Witness ==
    /\ pc = "finalize"
    /\ state = "Finished"
    /\ iwv.time_in_seconds = 1
    /\ Len(datapoints) = 1
    /\ datapoints[1].time_in_seconds = 1
    /\ gwv.datapoints = 1
    /\ gwv.date_time_end = ""

====
